---- MODULE Spec2Model ----
(***************************************************************************)
(* A model of the entity layer of the sunk Subsonic client:                *)
(*   src/src/artist.rs  Artist, its deserializer, albums, info, get_artist *)
(*   src/src/song.rs    Song, its deserializer, stream_url, hls,           *)
(*                      get_lyrics, AudioFormat                            *)
(* Strings that the code converts (ids, numbers, format names) are         *)
(* sequences of one-character strings, so that parsing and formatting are  *)
(* computed and not assumed.  Keys and operation names are plain strings.  *)
(***************************************************************************)
EXTENDS Integers, Sequences, FiniteSets, TLC

VARIABLES artist, song, op, input, result, sent, nreq, calls, aborted

vars == <<artist, song, op, input, result, sent, nreq, calls, aborted>>

(* ------------------------------ bounds -------------------------------- *)

\* longest album / similarArtist list in a payload
MaxAlbums == 2
\* calls made on one entity value, and requests made through one transport
MaxCalls == 2
\* longest bitrates list handed to hls
MaxBitrates == 2

(* --------------------------- Option, Result --------------------------- *)

None == <<>>

Some(v) == <<v>>

IsSome(o) == Len(o) = 1

Ok(v) == [kind |-> "Ok", v |-> v]

Err(e) == [kind |-> "Err", v |-> e]

\* a panic unwinds out of the call: no value is returned to the caller
Panic(m) == [kind |-> "Panic", v |-> m]

IsOk(r) == r.kind = "Ok"

IsErr(r) == r.kind = "Err"

IsPanic(r) == r.kind = "Panic"

SeqsUpTo(S, n) == UNION {[1..k -> S] : k \in 0..n}

(* ------------------------- decimal conversions ------------------------ *)

Digits == <<"0", "1", "2", "3", "4", "5", "6", "7", "8", "9">>

IsDigit(c) == \E i \in 1..10 : Digits[i] = c

DigitVal(c) == (CHOOSE i \in 1..10 : Digits[i] = c) - 1

\* u64::MAX = 18446744073709551615, as its decimal digits
U64MaxDigits ==
    <<"1","8","4","4","6","7","4","4","0","7","3","7","0","9","5","5","1","6","1","5">>

RECURSIVE StripZeros(_)
StripZeros(s) ==
    IF Len(s) > 1 /\ Head(s) = "0" THEN StripZeros(Tail(s)) ELSE s

RECURSIVE DigitsLess(_, _)
\* a < b for digit strings of the same length
DigitsLess(a, b) ==
    IF a = <<>> THEN FALSE
    ELSE IF Head(a) # Head(b) THEN DigitVal(Head(a)) < DigitVal(Head(b))
    ELSE DigitsLess(Tail(a), Tail(b))

\* the value of a digit string exceeds u64::MAX (checked_mul / checked_add fail)
Overflows(d) ==
    LET z == StripZeros(d) IN
    \/ Len(z) > Len(U64MaxDigits)
    \/ Len(z) = Len(U64MaxDigits) /\ DigitsLess(U64MaxDigits, z)

RECURSIVE DigitsValue(_, _)
DigitsValue(d, acc) ==
    IF d = <<>> THEN acc
    ELSE DigitsValue(Tail(d), acc * 10 + DigitVal(Head(d)))

\* str::parse::<u64>: an optional '+', then one or more ASCII digits whose
\* value fits 64 bits; anything else is a ParseIntError
parse(s) ==
    LET d == IF s # <<>> /\ Head(s) = "+" THEN Tail(s) ELSE s IN
    IF d = <<>> THEN Err("ParseIntError")
    ELSE IF \E i \in 1..Len(d) : ~IsDigit(d[i]) THEN Err("ParseIntError")
    ELSE IF Overflows(d) THEN Err("ParseIntError")
    ELSE Ok(DigitsValue(d, 0))

\* Result::unwrap: the value, or a panic
unwrap(r) == IF IsOk(r) THEN r ELSE Panic("unwrap on Err")

RECURSIVE to_string(_)
\* u64 -> decimal digits (Display for u64)
to_string(n) ==
    IF n < 10 THEN <<Digits[n + 1]>>
    ELSE Append(to_string(n \div 10), Digits[(n % 10) + 1])

(* ------------------------------- JSON --------------------------------- *)

\* a JSON scalar, or the absence of the key
JAbsent == [t |-> "absent", s |-> <<>>, n |-> 0]

JNull == [t |-> "null", s |-> <<>>, n |-> 0]

JStr(s) == [t |-> "str", s |-> s, n |-> 0]

JNum(n) == [t |-> "num", s |-> <<>>, n |-> n]

JBool(b) == [t |-> "bool", s |-> <<>>, n |-> IF b THEN 1 ELSE 0]

\* a JSON array under a key, or the absence of the key
NoArr == [t |-> "absent", items |-> <<>>]

JArr(items) == [t |-> "arr", items |-> items]

\* the field rules of a derived Deserialize, each giving Ok(value) or Err
ReqString(j) ==
    IF j.t = "absent" THEN Err("missing field")
    ELSE IF j.t = "str" THEN Ok(j.s) ELSE Err("invalid type")

ReqU64(j) ==
    IF j.t = "absent" THEN Err("missing field")
    ELSE IF j.t = "num" THEN Ok(j.n) ELSE Err("invalid type")

ReqBool(j) ==
    IF j.t = "absent" THEN Err("missing field")
    ELSE IF j.t = "bool" THEN Ok(j.n = 1) ELSE Err("invalid type")

OptString(j) ==
    IF j.t \in {"absent", "null"} THEN Ok(None)
    ELSE IF j.t = "str" THEN Ok(Some(j.s)) ELSE Err("invalid type")

OptU64(j) ==
    IF j.t \in {"absent", "null"} THEN Ok(None)
    ELSE IF j.t = "num" THEN Ok(Some(j.n)) ELSE Err("invalid type")

OptBool(j) ==
    IF j.t \in {"absent", "null"} THEN Ok(None)
    ELSE IF j.t = "bool" THEN Ok(Some(j.n = 1)) ELSE Err("invalid type")

\* the first error of a sequence of results, if any
FirstErr(rs) ==
    IF \E i \in 1..Len(rs) : IsErr(rs[i])
    THEN Some(rs[CHOOSE i \in 1..Len(rs) :
                    IsErr(rs[i]) /\ \A j \in 1..(i - 1) : ~IsErr(rs[j])])
    ELSE None

(* ------------------------ transport and query ------------------------- *)

\* Query::new, Query::with, arg, maybe_arg, maybe_arg_list, build: an ordered
\* sequence of <<key, value>> pairs; values arrive already converted
Query_new == <<>>

Query_with(key, value) == << <<key, value>> >>

arg(q, key, value) == Append(q, <<key, value>>)

maybe_arg(q, key, o) == IF IsSome(o) THEN Append(q, <<key, o[1]>>) ELSE q

maybe_arg_list(q, key, o) ==
    IF IsSome(o) THEN q \o [i \in 1..Len(o[1]) |-> <<key, to_string(o[1][i])>>]
    ELSE q

build(q) == q

\* Display for bool
bool_to_string(b) == IF b THEN <<"t", "r", "u", "e">> ELSE <<"f", "a", "l", "s", "e">>

\* util::map_str: Option<T> -> Option<String> through to_string, at T = u64
\* (and usize) and at T = bool
map_str_u64(o) == IF IsSome(o) THEN Some(to_string(o[1])) ELSE None

map_str_bool(o) == IF IsSome(o) THEN Some(bool_to_string(o[1])) ELSE None

\* the parameters every request carries: user, token, salt, version, client, format
AuthParams ==
    << <<"u", <<"u">> >>, <<"t", <<"t">> >>, <<"s", <<"s">> >>,
       <<"v", <<"1">> >>, <<"c", <<"c">> >>, <<"f", <<"j", "s", "o", "n">> >> >>

\* Sunk::build_url: the operation path and the query followed by the
\* authentication parameters, or the failure of a malformed base URL
build_url(name, query, baseOk) ==
    [sent |-> <<[fn |-> "build_url", name |-> name, query |-> query]>>,
     res |-> IF baseOk THEN Ok([path |-> name, params |-> query \o AuthParams])
             ELSE Err("UrlConstructionError")]

\* one call on the transport client: get, get_raw or build_url
Request(fn, name, query) == [fn |-> fn, name |-> name, query |-> query]

\* the failures of Sunk::get
TransportErrors == {"NetworkError", "DecodeError", "ServerError"}

(* ------------------------------- Album -------------------------------- *)

\* album::Album's deserializer: the raw wire shape, then the validated id
AlbumOf(id, name, count, e) ==
    IF IsSome(e) THEN e[1]
    ELSE IF ~IsOk(id) THEN Err("InvalidIdError")
    ELSE Ok([id |-> id.v, name |-> name.v, song_count |-> count.v])

Album_deserialize(p) ==
    AlbumOf(IF p.id.t = "str" THEN parse(p.id.s) ELSE Err(0),
            ReqString(p.name), ReqU64(p.songCount),
            FirstErr(<<ReqString(p.id), ReqString(p.name), ReqU64(p.songCount)>>))

(* ------------------------------- Artist ------------------------------- *)

\* a list that keeps the elements that convert and drops the others
AlbumList_skipping(j) ==
    IF j.t = "absent" THEN Ok(<<>>)
    ELSE Ok([i \in 1..Cardinality({k \in 1..Len(j.items) :
                                      IsOk(Album_deserialize(j.items[k]))}) |->
                Album_deserialize(
                    j.items[CHOOSE k \in 1..Len(j.items) :
                        /\ IsOk(Album_deserialize(j.items[k]))
                        /\ Cardinality({m \in 1..k :
                               IsOk(Album_deserialize(j.items[m]))}) = i]).v])

\* Vec<album::Album> with #[serde(default)]: every element or the first error
Collect(rs, e) ==
    IF IsSome(e) THEN e[1] ELSE Ok([i \in 1..Len(rs) |-> rs[i].v])

CollectAll(rs) == Collect(rs, FirstErr(rs))

AlbumList(j) ==
    IF j.t = "absent" THEN Ok(<<>>)
    ELSE CollectAll([i \in 1..Len(j.items) |-> Album_deserialize(j.items[i])])

\* a field result that is an error other than a missing key
Mistyped(r) == IF IsErr(r) /\ r.v # "missing field" THEN r ELSE Ok(0)

\* a field result that is a missing key
Missing(r) == IF IsErr(r) /\ r.v = "missing field" THEN r ELSE Ok(0)

\* _Artist::deserialize: the keys of the payload in map order, then the
\* missing required fields in declaration order
RawArtistOf(id, name, cover_art, album_count, album) ==
    LET e == FirstErr(<<album, Mistyped(album_count), Mistyped(cover_art),
                        Mistyped(id), Mistyped(name),
                        Missing(id), Missing(name), Missing(album_count)>>)
    IN  IF IsSome(e) THEN e[1]
        ELSE Ok([id |-> id.v, name |-> name.v, cover_art |-> cover_art.v,
                 album_count |-> album_count.v, album |-> album.v])

RawArtist(p) ==
    RawArtistOf(ReqString(p.id), ReqString(p.name), OptString(p.coverArt),
                ReqU64(p.albumCount), AlbumList(p.album))

\* a conversion that counts the embedded albums instead of keeping albumCount
Artist_from_counting(raw) ==
    IF IsErr(raw) THEN raw
    ELSE LET id == unwrap(parse(raw.v.id)) IN
         IF IsPanic(id) THEN id
         ELSE Ok([id |-> id.v, name |-> raw.v.name, cover_id |-> raw.v.cover_art,
                  album_count |-> Len(raw.v.album), albums |-> raw.v.album])

\* the conversion of the raw shape: Ok(Artist { id: raw.id.parse().unwrap(), .. })
Artist_from(raw) ==
    IF IsErr(raw) THEN raw
    ELSE LET id == unwrap(parse(raw.v.id)) IN
         IF IsPanic(id) THEN id
         ELSE Ok([id |-> id.v, name |-> raw.v.name, cover_id |-> raw.v.cover_art,
                  album_count |-> raw.v.album_count, albums |-> raw.v.album])

\* <Artist as Deserialize>::deserialize
Artist_deserialize(p) == Artist_from(RawArtist(p))

\* get_artist: one getArtist request, then the payload deserialized
\* a get_artist that asks a second time
get_artist_retrying(id, reply) ==
    [sent |-> <<Request("get", "getArtist", Query_with("id", to_string(id))),
                Request("get", "getArtist", Query_with("id", to_string(id)))>>,
     res |-> IF IsErr(reply) THEN reply ELSE Artist_deserialize(reply.v)]

get_artist(id, reply) ==
    [sent |-> <<Request("get", "getArtist", Query_with("id", to_string(id)))>>,
     res |-> IF IsErr(reply) THEN reply ELSE Artist_deserialize(reply.v)]

\* Ok(get_artist(..)?.albums): the fetched list, or the failure passed on
FetchedAlbums(g) ==
    [sent |-> g.sent, res |-> IF IsOk(g.res) THEN Ok(g.res.v.albums) ELSE g.res]

\* an albums that fetches only when the embedded list is too short
albums_when_short(self, reply) ==
    IF Len(self.albums) < self.album_count
    THEN FetchedAlbums(get_artist(self.id, reply))
    ELSE [sent |-> <<>>, res |-> Ok(self.albums)]

\* Artist::albums
albums(self, reply) ==
    IF Len(self.albums) # self.album_count
    THEN FetchedAlbums(get_artist(self.id, reply))
    ELSE [sent |-> <<>>, res |-> Ok(self.albums)]

\* ArtistInfoSerde and SimilarArtistSerde, derived
Similar_deserialize(p) ==
    LET e == FirstErr(<<Mistyped(ReqString(p.id)), Mistyped(ReqString(p.name)),
                        Missing(ReqString(p.id)), Missing(ReqString(p.name))>>)
    IN  IF IsSome(e) THEN e[1] ELSE Ok([id |-> p.id.s, name |-> p.name.s])

SimilarList(j) ==
    IF j.t = "absent" THEN Err("missing field")
    ELSE CollectAll([i \in 1..Len(j.items) |-> Similar_deserialize(j.items[i])])

ArtistInfoSerdeOf(p, bio, mb, lf, sm, md, lg, sim) ==
    LET e == FirstErr(<<Mistyped(bio), Mistyped(lg), Mistyped(lf), Mistyped(md),
                        Mistyped(mb), Mistyped(sim), Mistyped(sm),
                        Missing(bio), Missing(mb), Missing(lf), Missing(sm),
                        Missing(md), Missing(lg), Missing(sim)>>)
    IN  IF IsSome(e) THEN e[1]
        ELSE Ok([biography |-> bio.v, musicBrainzId |-> mb.v, lastFmUrl |-> lf.v,
                 smallImageUrl |-> sm.v, mediumImageUrl |-> md.v,
                 largeImageUrl |-> lg.v, similarArtist |-> sim.v])

ArtistInfoSerde(p) ==
    ArtistInfoSerdeOf(p, ReqString(p.biography), ReqString(p.musicBrainzId),
                      ReqString(p.lastFmUrl), ReqString(p.smallImageUrl),
                      ReqString(p.mediumImageUrl), ReqString(p.largeImageUrl),
                      SimilarList(p.similarArtist))

\* similarArtist.iter().map(|a| (a.id.parse().unwrap(), a.name)).collect()
\* (usize is taken as 64 bits wide)
SimilarIds(sim) == [i \in 1..Len(sim) |-> unwrap(parse(sim[i].id))]

ArtistInfo_from(serde, ids) ==
    IF IsErr(serde) THEN serde
    ELSE IF \E i \in 1..Len(ids) : IsPanic(ids[i]) THEN Panic("unwrap on Err")
    ELSE Ok([biography |-> serde.v.biography,
             musicbrainz_id |-> serde.v.musicBrainzId,
             lastfm_url |-> serde.v.lastFmUrl,
             image_urls |-> <<serde.v.smallImageUrl, serde.v.mediumImageUrl,
                              serde.v.largeImageUrl>>,
             similar_artists |->
                 [i \in 1..Len(ids) |-> <<ids[i].v, serde.v.similarArtist[i].name>>]])

ArtistInfo_of(serde) ==
    ArtistInfo_from(serde, IF IsOk(serde) THEN SimilarIds(serde.v.similarArtist) ELSE <<>>)

\* Artist::info
info(self, count, include_not_present, reply) ==
    [sent |-> <<Request("get", "getArtistInfo",
                  build(maybe_arg(maybe_arg(Query_with("id", to_string(self.id)),
                                            "count", map_str_u64(count)),
                                  "includeNotPresent",
                                  map_str_bool(include_not_present))))>>,
     res |-> IF IsErr(reply) THEN reply ELSE ArtistInfo_of(ArtistInfoSerde(reply.v))]

(* -------------------------------- Song -------------------------------- *)

\* AudioFormat: a variant is written as its name
AudioFormat ==
    {<<"A", "a", "c">>, <<"A", "i", "f">>, <<"A", "i", "f", "f">>, <<"A", "p", "e">>,
     <<"F", "l", "a", "c">>, <<"F", "l", "v">>, <<"M", "4", "a">>, <<"M", "p", "3">>,
     <<"M", "p", "c">>, <<"O", "g", "a">>, <<"O", "g", "g">>, <<"O", "g", "x">>,
     <<"O", "p", "u", "s">>, <<"S", "h", "n">>, <<"W", "a", "v">>, <<"W", "m", "a">>,
     <<"R", "a", "w">>}

UpperCase ==
    <<"A", "B", "C", "D", "E", "F", "G", "H", "I", "J", "K", "L", "M",
      "N", "O", "P", "Q", "R", "S", "T", "U", "V", "W", "X", "Y", "Z">>

LowerCase ==
    <<"a", "b", "c", "d", "e", "f", "g", "h", "i", "j", "k", "l", "m",
      "n", "o", "p", "q", "r", "s", "t", "u", "v", "w", "x", "y", "z">>

to_lowercase_char(c) ==
    IF \E i \in 1..Len(UpperCase) : UpperCase[i] = c
    THEN LowerCase[CHOOSE i \in 1..Len(UpperCase) : UpperCase[i] = c]
    ELSE c

to_lowercase(s) == [i \in 1..Len(s) |-> to_lowercase_char(s[i])]

\* a Display that writes the Debug name as it is
AudioFormat_debug(f) == f

\* <AudioFormat as Display>::fmt: the Debug name, lowercased
AudioFormat_fmt(f) == to_lowercase(f)

\* util::map_str at T = AudioFormat
map_str_format(o) == IF IsSome(o) THEN Some(AudioFormat_fmt(o[1])) ELSE None

\* the keys of a song payload, in the order a serde_json map yields them
SongKeys ==
    <<"album", "albumId", "artist", "artistId", "bitRate", "contentType",
      "coverArt", "created", "discNumber", "duration", "genre", "id", "isDir",
      "isVideo", "parent", "path", "playCount", "size", "suffix", "title",
      "track", "type", "year">>

\* the required fields of _Song, in declaration order
SongRequired ==
    <<"id", "parent", "isDir", "title", "size", "contentType", "suffix",
      "duration", "bitRate", "path", "playCount", "created", "type">>

\* the derived rule of each field of _Song
SongField(k, j) ==
    IF k \in {"id", "parent", "title", "contentType", "suffix", "path", "created",
              "type"} THEN ReqString(j)
    ELSE IF k \in {"size", "duration", "bitRate", "playCount"} THEN ReqU64(j)
    ELSE IF k = "isDir" THEN ReqBool(j)
    ELSE IF k \in {"track", "year", "discNumber"} THEN OptU64(j)
    ELSE IF k = "isVideo" THEN OptBool(j)
    ELSE OptString(j)

RawSongOf(f, e) == IF IsSome(e) THEN e[1] ELSE Ok([k \in DOMAIN f |-> f[k].v])

\* _Song::deserialize
RawSong(p) ==
    RawSongOf([k \in DOMAIN p |-> SongField(k, p[k])],
              FirstErr([i \in 1..Len(SongKeys) |->
                           Mistyped(SongField(SongKeys[i], p[SongKeys[i]]))]
                       \o [i \in 1..Len(SongRequired) |->
                           Missing(SongField(SongRequired[i], p[SongRequired[i]]))]))

\* Option::map(|i| i.parse().unwrap())
map_parse(o) == IF IsSome(o) THEN unwrap(parse(o[1])) ELSE Ok(0)

OptOf(o, r) == IF IsSome(o) THEN Some(r.v) ELSE None

SongOf(raw, id, album_id, artist_id, cover_id) ==
    IF IsPanic(id) THEN id
    ELSE IF IsPanic(album_id) THEN album_id
    ELSE IF IsPanic(artist_id) THEN artist_id
    ELSE IF IsPanic(cover_id) THEN cover_id
    ELSE Ok([id |-> id.v,
             title |-> raw["title"],
             album |-> raw["album"],
             album_id |-> OptOf(raw["albumId"], album_id),
             artist |-> raw["artist"],
             artist_id |-> OptOf(raw["artistId"], artist_id),
             track |-> raw["track"],
             year |-> raw["year"],
             genre |-> raw["genre"],
             cover_id |-> OptOf(raw["coverArt"], cover_id),
             size |-> raw["size"],
             duration |-> raw["duration"],
             path |-> raw["path"],
             media_type |-> raw["type"]])

\* the conversion of the raw shape: Ok(Song { id: raw.id.parse().unwrap(), .. })
Song_from(raw) ==
    IF IsErr(raw) THEN raw
    ELSE SongOf(raw.v, unwrap(parse(raw.v["id"])), map_parse(raw.v["albumId"]),
                map_parse(raw.v["artistId"]), map_parse(raw.v["coverArt"]))

\* <Song as Deserialize>::deserialize
Song_deserialize(p) == Song_from(RawSong(p))

\* Song::stream_url
stream_url(self, bitrate, format, baseOk) ==
    build_url("stream",
              build(maybe_arg(maybe_arg(arg(Query_new, "id", to_string(self.id)),
                                        "maxBitRate", map_str_u64(bitrate)),
                              "format", map_str_format(format))),
              baseOk)

\* an hls that sends the first bitrate only
hls_first_only(self, bitrates, reply) ==
    [sent |-> <<Request("get_raw", "hls",
                  build(maybe_arg(arg(Query_new, "id", to_string(self.id)),
                                  "bitrate",
                                  IF IsSome(bitrates) /\ bitrates[1] # <<>>
                                  THEN Some(to_string(bitrates[1][1])) ELSE None)))>>,
     res |-> reply]

\* Song::hls
hls(self, bitrates, reply) ==
    [sent |-> <<Request("get_raw", "hls",
                  build(maybe_arg_list(arg(Query_new, "id", to_string(self.id)),
                                       "bitrate", bitrates)))>>,
     res |-> reply]

\* Lyrics, derived
Lyrics_deserialize(p) ==
    LET e == FirstErr(<<Mistyped(ReqString(p.artist)), Mistyped(ReqString(p.title)),
                        Mistyped(ReqString(p.value)), Missing(ReqString(p.title)),
                        Missing(ReqString(p.artist)), Missing(ReqString(p.value))>>)
    IN  IF IsSome(e) THEN e[1]
        ELSE Ok([title |-> p.title.s, artist |-> p.artist.s, value |-> p.value.s])

\* Ok(Some(serde_json::from_value(res)?))
SomeLyrics(r) == IF IsOk(r) THEN Ok(Some(r.v)) ELSE r

\* a get_lyrics that answers None when the payload does not convert
get_lyrics_lenient(artistArg, title, reply) ==
    [sent |-> <<Request("get", "getLyrics",
                  build(maybe_arg(maybe_arg(Query_new, "artist", artistArg),
                                  "title", title)))>>,
     res |-> IF IsErr(reply) THEN reply
             ELSE IF IsOk(Lyrics_deserialize(reply.v))
                  THEN SomeLyrics(Lyrics_deserialize(reply.v))
                  ELSE Ok(None)]

\* get_lyrics
get_lyrics(artistArg, title, reply) ==
    [sent |-> <<Request("get", "getLyrics",
                  build(maybe_arg(maybe_arg(Query_new, "artist", artistArg),
                                  "title", title)))>>,
     res |-> IF IsErr(reply) THEN reply
             ELSE IF reply.v.value.t # "absent"
                  THEN SomeLyrics(Lyrics_deserialize(reply.v))
                  ELSE Ok(None)]

(* ------------------------------ payloads ------------------------------ *)

\* 2^64, the least decimal that does not fit a u64
TooBig ==
    <<"1","8","4","4","6","7","4","4","0","7","3","7","0","9","5","5","1","6","1","6">>

IdStrings ==
    {<<"1">>, <<"2", "7">>, <<"+", "2", "7">>, <<"a", "r", "-", "1">>, <<>>, TooBig}

IdValues == {JAbsent, JNum(1)} \cup {JStr(s) : s \in IdStrings}

AlbumPayloads ==
    {[id |-> JStr(i), name |-> JStr(<<"B">>), songCount |-> JNum(9)] :
        i \in {<<"1">>, <<"2">>, <<"a", "l", "-", "1">>}}

AlbumLists == {NoArr} \cup {JArr(l) : l \in SeqsUpTo(AlbumPayloads, MaxAlbums)}

ArtistPayloads ==
    [id : IdValues,
     name : {JAbsent, JStr(<<"X">>)},
     coverArt : {JAbsent, JStr(<<"a", "r", "-", "1">>)},
     albumCount : {JAbsent} \cup {JNum(n) : n \in 0..MaxAlbums},
     album : AlbumLists]

\* what a server may answer to getArtist
FetchedPayloads ==
    [id : {JStr(<<"1">>), JStr(<<"a", "r", "-", "1">>)},
     name : {JStr(<<"X">>)},
     coverArt : {JAbsent},
     albumCount : {JNum(MaxAlbums)},
     album : AlbumLists]
      \cup
    [id : {JStr(<<"1">>)},
     name : {JAbsent},
     coverArt : {JAbsent},
     albumCount : {JNum(0)},
     album : {NoArr}]

SimilarPayloads ==
    {[id |-> JStr(<<"2">>), name |-> JStr(<<"Y">>)],
     [id |-> JStr(<<"a", "r", "-", "2">>), name |-> JStr(<<"Z">>)],
     [id |-> JStr(<<"3">>), name |-> JAbsent]}

\* what a server may answer to getArtistInfo
InfoPayloads ==
    [biography : {JStr(<<"b">>)},
     musicBrainzId : {JStr(<<"m">>)},
     lastFmUrl : {JStr(<<"l">>)},
     smallImageUrl : {JStr(<<"s">>)},
     mediumImageUrl : {JStr(<<"m">>)},
     largeImageUrl : {JStr(<<"l">>)},
     similarArtist : {NoArr} \cup {JArr(l) : l \in SeqsUpTo(SimilarPayloads, MaxAlbums)}]
      \cup
    [biography : {JAbsent},
     musicBrainzId : {JStr(<<"m">>)},
     lastFmUrl : {JNull},
     smallImageUrl : {JStr(<<"s">>)},
     mediumImageUrl : {JStr(<<"m">>)},
     largeImageUrl : {JStr(<<"l">>)},
     similarArtist : {JArr(<<>>)}]

\* the song of the tests
SongBase ==
    [k \in {SongKeys[i] : i \in 1..Len(SongKeys)} |->
        CASE k = "id" -> JStr(<<"2", "7">>)
          [] k = "parent" -> JStr(<<"2", "5">>)
          [] k = "isDir" -> JBool(FALSE)
          [] k = "title" -> JStr(<<"B", "A">>)
          [] k = "album" -> JStr(<<"B">>)
          [] k = "artist" -> JStr(<<"M", "V">>)
          [] k = "track" -> JNum(1)
          [] k = "genre" -> JStr(<<"g">>)
          [] k = "coverArt" -> JStr(<<"2", "5">>)
          [] k = "size" -> JNum(54)
          [] k = "contentType" -> JStr(<<"a">>)
          [] k = "suffix" -> JStr(<<"m", "p", "3">>)
          [] k = "duration" -> JNum(198)
          [] k = "bitRate" -> JNum(216)
          [] k = "path" -> JStr(<<"p">>)
          [] k = "playCount" -> JNum(706)
          [] k = "created" -> JStr(<<"c">>)
          [] k = "albumId" -> JStr(<<"1">>)
          [] k = "artistId" -> JStr(<<"1">>)
          [] k = "type" -> JStr(<<"m">>)
          [] OTHER -> JAbsent]

OptIdValues == {JAbsent, JStr(<<"1">>), JStr(<<"a", "l", "-", "1">>)}

SongPayloads ==
    {[SongBase EXCEPT !["id"] = i, !["albumId"] = a, !["artistId"] = r,
                      !["coverArt"] = c, !["track"] = t, !["parent"] = q] :
        i \in IdValues, a \in OptIdValues, r \in OptIdValues,
        c \in {JAbsent, JNull, JStr(<<"2", "5">>), JStr(<<"a", "l", "-", "1">>)},
        t \in {JAbsent, JNum(1)}, q \in {JAbsent, JStr(<<"2", "5">>)}}

Bitrates == {96, 320}

LyricsFields == {JAbsent, JNull, JStr(<<"x">>), JStr(<<"y">>)}

\* what a server may answer to getLyrics
LyricsPayloads == [title : LyricsFields, artist : LyricsFields, value : LyricsFields]

SearchTerms == {None, Some(<<"a">>), Some(<<"b">>)}

(* ------------------------------ actions ------------------------------- *)

NoInput == [none |-> TRUE]

Init ==
    /\ artist = None
    /\ song = None
    /\ op = "none"
    /\ input = NoInput
    /\ result = Ok(0)
    /\ sent = <<>>
    /\ nreq = 0
    /\ calls = 0
    /\ aborted = FALSE

\* serde_json::from_value::<Artist>(payload)
ParseArtist(p) ==
    /\ op = "none"
    /\ result' = Artist_deserialize(p)
    /\ artist' = IF IsOk(result') THEN Some(result'.v) ELSE None
    /\ aborted' = IsPanic(result')
    /\ op' = "parse_artist"
    /\ input' = [payload |-> p]
    /\ UNCHANGED <<song, sent, nreq, calls>>

\* what an operation leaves behind: its result, the calls it made on the
\* transport, the count of those that went to the network, and whether it unwound
Returns(r) ==
    /\ result' = r.res
    /\ sent' = r.sent
    /\ nreq' = nreq + Cardinality({i \in 1..Len(r.sent) : r.sent[i].fn # "build_url"})
    /\ aborted' = IsPanic(r.res)

\* artist.albums(&mut sunk), the transport answering reply if it is asked
Albums(reply) ==
    /\ ~aborted
    /\ IsSome(artist)
    /\ calls < MaxCalls
    /\ Returns(albums(artist[1], reply))
    /\ input' = IF sent' = <<>> THEN NoInput ELSE [reply |-> reply]
    /\ op' = "albums"
    /\ calls' = calls + 1
    /\ UNCHANGED <<artist, song>>

\* artist.info(&mut sunk, count, include_not_present)
Info(count, include_not_present, reply) ==
    /\ ~aborted
    /\ IsSome(artist)
    /\ nreq < MaxCalls
    /\ Returns(info(artist[1], count, include_not_present, reply))
    /\ input' = [count |-> count, include_not_present |-> include_not_present,
                 reply |-> reply]
    /\ op' = "info"
    /\ UNCHANGED <<artist, song, calls>>

InfoCall(reply) ==
    \E count \in {None, Some(2)} :
        \E inp \in {None, Some(TRUE)} : Info(count, inp, reply)

\* serde_json::from_value::<Song>(payload)
ParseSong(p) ==
    /\ op = "none"
    /\ result' = Song_deserialize(p)
    /\ song' = IF IsOk(result') THEN Some(result'.v) ELSE None
    /\ aborted' = IsPanic(result')
    /\ op' = "parse_song"
    /\ input' = [payload |-> p]
    /\ UNCHANGED <<artist, sent, nreq, calls>>

\* song.stream_url(&mut sunk, bitrate, format)
StreamUrl(bitrate, format, baseOk) ==
    /\ ~aborted
    /\ IsSome(song)
    /\ Returns(stream_url(song[1], bitrate, format, baseOk))
    /\ input' = [bitrate |-> bitrate, format |-> format]
    /\ op' = "stream_url"
    /\ UNCHANGED <<artist, song, calls>>

\* song.hls(&mut sunk, bitrates)
Hls(bitrates, reply) ==
    /\ ~aborted
    /\ IsSome(song)
    /\ nreq < MaxCalls
    /\ Returns(hls(song[1], bitrates, reply))
    /\ input' = [bitrates |-> bitrates]
    /\ op' = "hls"
    /\ UNCHANGED <<artist, song, calls>>

NextSong ==
    \/ \E p \in SongPayloads : ParseSong(p)
    \/ \E b \in {None} \cup {Some(n) : n \in Bitrates} :
         \E f \in {None} \cup {Some(x) : x \in AudioFormat} :
            \E baseOk \in BOOLEAN : StreamUrl(b, f, baseOk)
    \/ \E l \in {None} \cup {Some(x) : x \in SeqsUpTo(Bitrates, MaxBitrates)} :
         \E reply \in {Err("NetworkError"), Ok("m3u8")} : Hls(l, reply)

SpecSong == Init /\ [][NextSong]_vars

\* the deserializers, and the one operation that parses ids after them
NextParse ==
    \/ \E p \in ArtistPayloads : ParseArtist(p)
    \/ \E p \in SongPayloads : ParseSong(p)
    \/ \E e \in TransportErrors : InfoCall(Err(e))
    \/ \E p \in InfoPayloads : InfoCall(Ok(p))

SpecParse == Init /\ [][NextParse]_vars

\* get_lyrics(&mut sunk, artist, title)
GetLyrics(artistArg, title, reply) ==
    /\ ~aborted
    /\ nreq < MaxCalls
    /\ Returns(get_lyrics(artistArg, title, reply))
    /\ input' = [artist |-> artistArg, title |-> title, reply |-> reply]
    /\ op' = "get_lyrics"
    /\ UNCHANGED <<artist, song, calls>>

LyricsCall(reply) ==
    \E a \in SearchTerms : \E t \in SearchTerms : GetLyrics(a, t, reply)

NextLyrics ==
    \/ \E e \in TransportErrors : LyricsCall(Err(e))
    \/ \E p \in LyricsPayloads : LyricsCall(Ok(p))

SpecLyrics == Init /\ [][NextLyrics]_vars

NextArtist ==
    \/ \E p \in ArtistPayloads : ParseArtist(p)
    \/ \E e \in TransportErrors : Albums(Err(e))
    \/ \E p \in FetchedPayloads : Albums(Ok(p))

SpecArtist == Init /\ [][NextArtist]_vars

(* ------------------------------- claims ------------------------------- *)

\* the wire's notion of a decimal unsigned integer: digits only, at least one
Numeric(s) == s # <<>> /\ \A i \in 1..Len(s) : IsDigit(s[i])

Unsigned(s) == IF s # <<>> /\ Head(s) = "+" THEN Tail(s) ELSE s

\* the same, with the sign '+' that the integer grammar of Rust allows
Decimal(s) == Numeric(Unsigned(s))

\* a decimal whose value fits 64 bits
Fits(s) == ~Overflows(Unsigned(s))

\* the string s reads as the integer n
ParsesTo(s, n) == IsOk(parse(s)) /\ parse(s).v = n

\* an album of the wire that converts: string id and name, a count, numeric id
GoodAlbum(p) ==
    /\ p.id.t = "str" /\ Numeric(p.id.s) /\ Fits(p.id.s)
    /\ p.name.t = "str"
    /\ p.songCount.t = "num"

\* a domain album list is the wire list, element by element and in order
SameAlbums(list, j) ==
    /\ Len(list) = Len(j.items)
    /\ \A i \in 1..Len(list) :
          /\ list[i].id = DigitsValue(j.items[i].id.s, 0)
          /\ list[i].name = j.items[i].name.s
          /\ list[i].song_count = j.items[i].songCount.n

Refetches(a) == Len(a.albums) # a.album_count

\* C1: Artist::albums makes no request and returns the embedded list when its
\* length equals album_count; otherwise it makes exactly one getArtist request
\* for the artist's own id and returns the album list of the fetched artist.
C1_LazyRefetch ==
    op = "albums" =>
        IF Refetches(artist[1])
        THEN /\ Len(sent) = 1
             /\ sent[1].fn = "get"
             /\ sent[1].name = "getArtist"
             /\ Len(sent[1].query) = 1
             /\ sent[1].query[1][1] = "id"
             /\ Numeric(sent[1].query[1][2])
             /\ ParsesTo(sent[1].query[1][2], artist[1].id)
             /\ (IsOk(input.reply) /\ IsOk(result)) =>
                    SameAlbums(result.v, input.reply.v.album)
             /\ (/\ IsOk(input.reply)
                 /\ input.reply.v.id.t = "str" /\ Numeric(input.reply.v.id.s)
                 /\ Fits(input.reply.v.id.s)
                 /\ input.reply.v.name.t = "str"
                 /\ input.reply.v.albumCount.t = "num"
                 /\ \A i \in 1..Len(input.reply.v.album.items) :
                       GoodAlbum(input.reply.v.album.items[i])) => IsOk(result)
        ELSE /\ sent = <<>>
             /\ IsOk(result)
             /\ result.v = artist[1].albums

C1_Witness ==
    /\ op = "albums"
    /\ Refetches(artist[1])
    /\ artist[1].id = 27
    /\ IsOk(result)
    /\ Len(result.v) = 2
    /\ result.v[1].id = 2
    /\ Len(artist[1].albums) = 1

\* C2: an Artist or Song payload that is well-formed except that its id string
\* is not a decimal unsigned integer deserializes to an error result; it never
\* yields an entity and never aborts the program.
C2_BadIdIsError ==
    /\ (/\ op = "parse_artist"
        /\ input.payload.id.t = "str" /\ ~Decimal(input.payload.id.s)
        /\ input.payload.name.t = "str"
        /\ input.payload.albumCount.t = "num"
        /\ \A i \in 1..Len(input.payload.album.items) :
              GoodAlbum(input.payload.album.items[i]))
       => (IsErr(result) /\ artist = None /\ ~aborted)
    /\ (/\ op = "parse_song"
        /\ input.payload["id"].t = "str" /\ ~Decimal(input.payload["id"].s)
        /\ input.payload["parent"].t = "str"
        /\ \A k \in {"albumId", "artistId", "coverArt"} :
              input.payload[k].t = "str" => Numeric(input.payload[k].s))
       => (IsErr(result) /\ song = None /\ ~aborted)

\* the optional id fields of a song, wire key and domain field
OptIdOk(p, k, got) ==
    IF p[k].t \in {"absent", "null"} THEN got = None
    ELSE got = Some(DigitsValue(p[k].s, 0))

\* C3: each optional id of a Song payload (albumId, artistId, coverArt) maps
\* absent to absent, numeric to the parsed integer, and non-numeric to an error
\* result; a non-numeric similarArtist id makes Artist::info return an error;
\* none of these panics.
C3_OptionalIds ==
    /\ (/\ op = "parse_song"
        /\ input.payload["id"].t = "str" /\ Numeric(input.payload["id"].s)
        /\ Fits(input.payload["id"].s)
        /\ input.payload["parent"].t = "str")
       => /\ ~IsPanic(result)
          /\ IF \E k \in {"albumId", "artistId", "coverArt"} :
                    input.payload[k].t = "str" /\ ~Decimal(input.payload[k].s)
             THEN IsErr(result)
             ELSE /\ IsOk(result)
                  /\ OptIdOk(input.payload, "albumId", result.v.album_id)
                  /\ OptIdOk(input.payload, "artistId", result.v.artist_id)
                  /\ OptIdOk(input.payload, "coverArt", result.v.cover_id)
    /\ (/\ op = "info"
        /\ IsOk(input.reply)
        /\ \E i \in 1..Len(input.reply.v.similarArtist.items) :
              /\ input.reply.v.similarArtist.items[i].id.t = "str"
              /\ ~Decimal(input.reply.v.similarArtist.items[i].id.s))
       => IsErr(result)

\* the entries of a query under one key
Entries(q, key) == {i \in 1..Len(q) : q[i][1] = key}

\* the lowercase names of the formats, as the server reads them
LowerName(f) ==
    CASE f = <<"A", "a", "c">> -> <<"a", "a", "c">>
      [] f = <<"A", "i", "f">> -> <<"a", "i", "f">>
      [] f = <<"A", "i", "f", "f">> -> <<"a", "i", "f", "f">>
      [] f = <<"A", "p", "e">> -> <<"a", "p", "e">>
      [] f = <<"F", "l", "a", "c">> -> <<"f", "l", "a", "c">>
      [] f = <<"F", "l", "v">> -> <<"f", "l", "v">>
      [] f = <<"M", "4", "a">> -> <<"m", "4", "a">>
      [] f = <<"M", "p", "3">> -> <<"m", "p", "3">>
      [] f = <<"M", "p", "c">> -> <<"m", "p", "c">>
      [] f = <<"O", "g", "a">> -> <<"o", "g", "a">>
      [] f = <<"O", "g", "g">> -> <<"o", "g", "g">>
      [] f = <<"O", "g", "x">> -> <<"o", "g", "x">>
      [] f = <<"O", "p", "u", "s">> -> <<"o", "p", "u", "s">>
      [] f = <<"S", "h", "n">> -> <<"s", "h", "n">>
      [] f = <<"W", "a", "v">> -> <<"w", "a", "v">>
      [] f = <<"W", "m", "a">> -> <<"w", "m", "a">>
      [] f = <<"R", "a", "w">> -> <<"r", "a", "w">>

\* C4: the query Song::stream_url hands to build_url holds exactly one "id"
\* entry, the song's id; a "maxBitRate" entry iff bitrate is present (one, its
\* decimal value); a "format" entry iff format is present (one, the format's
\* lowercase name); with both absent the URL holds neither key.
C4_StreamQuery ==
    op = "stream_url" =>
        /\ Len(sent) = 1
        /\ sent[1].fn = "build_url"
        /\ sent[1].name = "stream"
        /\ LET q == sent[1].query IN
           /\ Cardinality(Entries(q, "id")) = 1
           /\ \A i \in Entries(q, "id") :
                  Numeric(q[i][2]) /\ ParsesTo(q[i][2], song[1].id)
           /\ Cardinality(Entries(q, "maxBitRate")) =
                  (IF IsSome(input.bitrate) THEN 1 ELSE 0)
           /\ \A i \in Entries(q, "maxBitRate") :
                  Numeric(q[i][2]) /\ ParsesTo(q[i][2], input.bitrate[1])
           /\ Cardinality(Entries(q, "format")) =
                  (IF IsSome(input.format) THEN 1 ELSE 0)
           /\ \A i \in Entries(q, "format") : q[i][2] = LowerName(input.format[1])
           /\ Len(q) = 1 + Cardinality(Entries(q, "maxBitRate"))
                         + Cardinality(Entries(q, "format"))
        /\ (IsOk(result) /\ input.bitrate = None /\ input.format = None) =>
              /\ Entries(result.v.params, "maxBitRate") = {}
              /\ Entries(result.v.params, "format") = {}
              /\ Cardinality(Entries(result.v.params, "id")) = 1

C4_Witness ==
    /\ op = "stream_url"
    /\ song[1].id = 27
    /\ input.bitrate = Some(320)
    /\ input.format = Some(<<"O", "p", "u", "s">>)
    /\ IsOk(result)
    /\ Len(result.v.params) = 3 + Len(AuthParams)

\* C5: the query Song::hls sends with get_raw is the "id" entry followed by one
\* "bitrate" entry per element of the list, in order and with duplicates kept;
\* with bitrates absent or empty the query is the "id" entry alone.
C5_HlsQuery ==
    op = "hls" =>
        /\ Len(sent) = 1
        /\ sent[1].fn = "get_raw"
        /\ sent[1].name = "hls"
        /\ LET q == sent[1].query
               l == IF IsSome(input.bitrates) THEN input.bitrates[1] ELSE <<>>
           IN  /\ Len(q) = 1 + Len(l)
               /\ q[1][1] = "id"
               /\ Numeric(q[1][2])
               /\ ParsesTo(q[1][2], song[1].id)
               /\ \A i \in 1..Len(l) :
                     /\ q[i + 1][1] = "bitrate"
                     /\ Numeric(q[i + 1][2])
                     /\ ParsesTo(q[i + 1][2], l[i])

C5_Witness ==
    /\ op = "hls"
    /\ input.bitrates = Some(<<320, 320>>)
    /\ Len(sent[1].query) = 3
    /\ IsOk(result)

\* C6: if any element of the embedded album list fails its own conversion, the
\* whole Artist deserialization returns an error; no Artist holding only the
\* valid albums, or a shortened list, is produced.
C6_AllOrNothing ==
    /\ (/\ op = "parse_artist"
        /\ \E i \in 1..Len(input.payload.album.items) :
              ~GoodAlbum(input.payload.album.items[i]))
       => (IsErr(result) /\ artist = None)
    /\ (/\ op = "albums"
        /\ sent # <<>>
        /\ IsOk(input.reply)
        /\ \E i \in 1..Len(input.reply.v.album.items) :
              ~GoodAlbum(input.reply.v.album.items[i]))
       => IsErr(result)

C6_Witness ==
    /\ op = "parse_artist"
    /\ input.payload.id = JStr(<<"1">>)
    /\ input.payload.name.t = "str"
    /\ input.payload.albumCount = JNum(1)
    /\ Len(input.payload.album.items) = 2
    /\ GoodAlbum(input.payload.album.items[1])
    /\ ~GoodAlbum(input.payload.album.items[2])
    /\ IsErr(result)

\* the getArtist call of the last albums failed: the transport reported an
\* error, or the payload is not a well-formed artist
FetchFailed ==
    \/ IsErr(input.reply)
    \/ /\ IsOk(input.reply)
       /\ \/ input.reply.v.id.t # "str"
          \/ ~Decimal(input.reply.v.id.s)
          \/ ~Fits(input.reply.v.id.s)
          \/ input.reply.v.name.t # "str"
          \/ input.reply.v.albumCount.t # "num"
          \/ \E i \in 1..Len(input.reply.v.album.items) :
                ~GoodAlbum(input.reply.v.album.items[i])

\* C7: when Artist::albums has to re-fetch and the getArtist call fails, by a
\* network error, a server error or a payload that does not deserialize, albums
\* returns that error, never the embedded list or an empty list.
C7_FetchErrorReturned ==
    (op = "albums" /\ sent # <<>> /\ FetchFailed) =>
        /\ IsErr(result)
        /\ IsErr(input.reply) => result = input.reply

C9_Original ==
    (op = "get_lyrics" /\ IsOk(input.reply)) =>
        /\ ~IsErr(result)
        /\ IsOk(result) =>
              IF input.reply.v.value.t # "str" THEN result.v = None
              ELSE /\ IsSome(result.v)
                   /\ result.v[1].value = input.reply.v.value.s

\* C9, amended: after a successful getLyrics call, get_lyrics returns None
\* exactly when the payload has no "value" key; with title, artist and value
\* all strings it returns the lyrics with these three; with a "value" key and
\* any of the three missing or not a string it returns the deserialization
\* error.
C9_Lyrics ==
    (op = "get_lyrics" /\ IsOk(input.reply)) =>
        LET p == input.reply.v IN
        IF p.value.t = "absent" THEN IsOk(result) /\ result.v = None
        ELSE IF p.title.t = "str" /\ p.artist.t = "str" /\ p.value.t = "str"
        THEN /\ IsOk(result)
             /\ result.v = Some([title |-> p.title.s, artist |-> p.artist.s,
                                 value |-> p.value.s])
        ELSE IsErr(result)

C9_Witness ==
    /\ op = "get_lyrics"
    /\ IsOk(input.reply)
    /\ input.reply.v.value.t = "str"
    /\ input.reply.v.title.t = "absent"
    /\ IsErr(result)

\* C10: nothing is remembered between Artist::albums calls: every call leaves
\* the artist as it was, an artist whose embedded length differs from
\* album_count costs one getArtist request per call, and one whose lengths
\* match costs none.
C10_NoMemo ==
    /\ [](IsSome(artist) =>
            nreq = (IF Refetches(artist[1]) THEN calls ELSE 0))
    /\ [][IsSome(artist) =>
            /\ artist' = artist
            /\ calls' = calls + 1 =>
                  Len(sent') = (IF Refetches(artist[1]) THEN 1 ELSE 0)]_vars

C10_Witness ==
    /\ IsSome(artist)
    /\ Refetches(artist[1])
    /\ calls = 2
    /\ nreq = 2
    /\ IsOk(result)

====
